---- MODULE Spec2Model ----
(***************************************************************************)
(* Model of src/menu.py: the Menu registry (add_option, set_folder,        *)
(* add_separator, get_item, remove_item), the expanded renderer and the    *)
(* collapsed navigator of Menu.show.                                       *)
(*                                                                         *)
(* Nodes are identified by their creation index (1, 2, ...); 0 stands for  *)
(* Python's None.  Strings the program formats or parses (composite        *)
(* numbers, input lines) are sequences of one-character strings.           *)
(***************************************************************************)
EXTENDS Integers, Sequences, FiniteSets, TLC

\* ------------------------------------------------------------------ bounds
\* Number of nodes the caller creates through the builder API.
MaxNodes == 3

\* Names the caller gives to options and folders.
Names == {"a", "Exit"}


None == 0

\* ----------------------------------------------------------------- helpers
Front(s) == SubSeq(s, 1, Len(s) - 1)

EmptyMap == [x \in {} |-> None]

\* str.lower() on the names in use
Lower(s) == IF s = "Exit" THEN "exit" ELSE s

DigitChars == <<"0", "1", "2", "3", "4", "5", "6", "7", "8", "9">>

\* f"{counter}" : decimal digits of a non-negative integer
RECURSIVE Digits(_)
Digits(n) ==
    IF n < 10 THEN <<DigitChars[n + 1]>>
    ELSE Digits(n \div 10) \o <<DigitChars[(n % 10) + 1]>>

DigitValue(c) == CHOOSE d \in 0..9 : DigitChars[d + 1] = c

IsDigit(c) == \E d \in 0..9 : DigitChars[d + 1] = c

\* Lines the user types at a prompt: every number a level can list (the
\* built nodes and the automatic exit), "0", and lines that are no number
\* of a collapsed level.
Inputs ==
    { Digits(n) : n \in 0..(MaxNodes + 1) } \cup
    { <<"x">>, <<" ", "1">>,
      <<"1", ".", "1">>, <<"2", ".", "1">>, <<"1", ".", "1", ".", "1">> }

RECURSIVE Strip(_)
Strip(s) ==
    IF s = <<>> THEN s
    ELSE IF Head(s) = " " THEN Strip(Tail(s))
    ELSE IF s[Len(s)] = " " THEN Strip(Front(s))
    ELSE s

RECURSIVE DigitsValue(_)
DigitsValue(s) ==
    IF s = <<>> THEN 0 ELSE DigitsValue(Front(s)) * 10 + DigitValue(s[Len(s)])

\* int(selection): ok = FALSE stands for ValueError
ParseInt(s) ==
    LET t    == Strip(s)
        sign == IF t # <<>> /\ Head(t) = "-" THEN -1 ELSE 1
        body == IF t # <<>> /\ Head(t) \in {"+", "-"} THEN Tail(t) ELSE t
    IN  IF body # <<>> /\ \A i \in 1..Len(body) : IsDigit(body[i])
        THEN [ok |-> TRUE, value |-> sign * DigitsValue(body)]
        ELSE [ok |-> FALSE, value |-> 0]

\* list.remove(x): drop the first element equal to x
RECURSIVE RemoveFirst(_, _)
RemoveFirst(s, x) ==
    IF s = <<>> THEN s
    ELSE IF Head(s) = x THEN Tail(s)
    ELSE <<Head(s)>> \o RemoveFirst(Tail(s), x)

\* ------------------------------------------------------------------- state
VARIABLES
    nodes,          \* every node object created so far, by creation index
    children,       \* MenuFolder.children of each node (<<>> for non-folders)
    items,          \* Menu.__items__
    include_exit,   \* Menu.__include_exit__
    exit_included,  \* Menu.__exit_included__
    pc,             \* where the program is: idle, or inside show
    collapsed,      \* show's collapsed argument
    stack,          \* active __show_collapsed calls, outermost first
    current_items,  \* current_items of the innermost call
    mapping,        \* mapping of the innermost call
    selectable,     \* selectable of show (expanded mode)
    printed,        \* item lines printed by the latest rendering
    result,         \* selected_option in show (collapsed mode)
    invoked,        \* options whose invoke() ran during this show call
    message         \* the red message printed last during this show call

vars == <<nodes, children, items, include_exit, exit_included, pc, collapsed,
          stack, current_items, mapping, selectable, printed,
          result, invoked, message>>

tree == <<nodes, children, items>>

locals == <<collapsed, stack, current_items, mapping, selectable, printed,
            result, invoked, message>>

\* ------------------------------------------------------------ node objects
\* variant: the depth of the parent is taken over without adding one
MenuOption_ParentDepth(name, action, folder, ns) ==
    [kind |-> "Option", name |-> name, action |-> action, parent |-> folder,
     dimension |-> IF folder = None THEN 0 ELSE ns[folder].dimension]

MenuOption(name, action, folder, ns) ==
    [kind |-> "Option", name |-> name, action |-> action, parent |-> folder,
     dimension |-> IF folder = None THEN 0 ELSE ns[folder].dimension + 1]

MenuFolder(name, parent, ns) ==
    [kind |-> "Folder", name |-> name, action |-> "", parent |-> parent,
     dimension |-> IF parent = None THEN 0 ELSE ns[parent].dimension + 1]

MenuSeparator ==
    [kind |-> "Separator", name |-> "", action |-> "", parent |-> None,
     dimension |-> 0]

IsOption(ns, i) == ns[i].kind = "Option"
IsFolder(ns, i) == ns[i].kind = "Folder"
\* variant: the test for a separator never succeeds
IsSeparator_Never(ns, i) == FALSE

IsSeparator(ns, i) == ns[i].kind = "Separator"

\* hasattr(item, 'name')
HasName(ns, i) == ns[i].kind # "Separator"

Folders == {i \in 1..Len(nodes) : IsFolder(nodes, i)}

\* nodes created through the builder API (the automatic exit is not counted)
Built == Len(nodes) - (IF exit_included THEN 1 ELSE 0)

\* ------------------------------------------------------------------- Init
Init ==
    /\ nodes = <<>>
    /\ children = <<>>
    /\ items = <<>>
    /\ include_exit \in BOOLEAN
    /\ exit_included = FALSE
    /\ pc = "idle"
    /\ collapsed = FALSE
    /\ stack = <<>>
    /\ current_items = <<>>
    /\ mapping = EmptyMap
    /\ selectable = EmptyMap
    /\ printed = <<>>
    /\ result = [tag |-> "none", item |-> None]
    /\ invoked = <<>>
    /\ message = ""

\* -------------------------------------------------------------- registry
\* Place a freshly created node: root sequence, or parent.add_child
Place(node, parent) ==
    LET id == Len(nodes) + 1 IN
    /\ nodes' = Append(nodes, node)
    /\ IF parent = None
       THEN /\ items' = Append(items, id)
            /\ children' = Append(children, <<>>)
       ELSE /\ items' = items
            /\ children' = [Append(children, <<>>) EXCEPT
                              ![parent] = Append(children[parent], id)]

add_option(name, parent) ==
    /\ pc = "idle"
    /\ Built < MaxNodes
    /\ Place(MenuOption(name, "callback", parent, nodes), parent)
    /\ UNCHANGED <<include_exit, exit_included, pc, locals>>

set_folder(name, parent) ==
    /\ pc = "idle"
    /\ Built < MaxNodes
    /\ Place(MenuFolder(name, parent, nodes), parent)
    /\ UNCHANGED <<include_exit, exit_included, pc, locals>>

add_separator(parent) ==
    /\ pc = "idle"
    /\ Built < MaxNodes
    /\ Place(MenuSeparator, parent)
    /\ UNCHANGED <<include_exit, exit_included, pc, locals>>

\* variant: the scan runs from the end of the root sequence
RECURSIVE get_item_in_LastMatch(_, _, _)
get_item_in_LastMatch(ns, its, name) ==
    IF its = <<>> THEN None
    ELSE IF HasName(ns, its[Len(its)]) /\ ns[its[Len(its)]].name = name
         THEN its[Len(its)]
    ELSE get_item_in_LastMatch(ns, Front(its), name)

RECURSIVE get_item_in(_, _, _)
get_item_in(ns, its, name) ==
    IF its = <<>> THEN None
    ELSE IF HasName(ns, Head(its)) /\ ns[Head(its)].name = name THEN Head(its)
    ELSE get_item_in(ns, Tail(its), name)

get_item(name) == get_item_in(nodes, items, name)

\* variant: the head of the root sequence is dropped instead of the item
remove_item_in_PopsHead(ns, its, name) ==
    LET item == get_item_in(ns, its, name) IN
    IF item # None THEN Tail(its) ELSE its

\* the root sequence after remove_item(name)
remove_item_in(ns, its, name) ==
    LET item == get_item_in(ns, its, name) IN
    IF item # None THEN RemoveFirst(its, item) ELSE its

remove_item(name) ==
    /\ pc = "idle"
    /\ items' = remove_item_in(nodes, items, name)
    /\ UNCHANGED <<nodes, children, include_exit, exit_included, pc, locals>>

\* ------------------------------------------------------ expanded renderer
Line(kind, item, number, depth) ==
    [kind |-> kind, item |-> item, number |-> number, depth |-> depth]

\* variant: the "." between parent number and counter is missing
CompositeNumber_NoDot(parent_number, counter) ==
    parent_number \o Digits(counter)

\* f"{parent_number}{counter}" at root, f"{parent_number}.{counter}" below
CompositeNumber(parent_number, counter) ==
    IF parent_number = <<>> THEN parent_number \o Digits(counter)
    ELSE parent_number \o <<".">> \o Digits(counter)

\* d[key] = item
Put(d, key, item) == (key :> item) @@ d

\* variant: the emptiness test is missing
HasChildren_Always(ch, item) == TRUE

\* if item.children
HasChildren(ch, item) == ch[item] # <<>>

PrintSeparator(acc, item, depth) ==
    [acc EXCEPT !.printed = Append(@, Line("separator", item, <<>>, depth))]

\* variant: folders are registered as selectable too
PrintFolder_Registers(acc, item, number, depth) ==
    [acc EXCEPT !.printed = Append(@, Line("folder", item, number, depth)),
                !.selectable = Put(@, number, item)]

PrintFolder(acc, item, number, depth) ==
    [acc EXCEPT !.printed = Append(@, Line("folder", item, number, depth))]

PrintEmptyFolder(acc, item, depth) ==
    [acc EXCEPT !.printed = Append(@, Line("empty", item, <<>>, depth))]

PrintOption(acc, item, number, depth) ==
    [acc EXCEPT !.printed = Append(@, Line("option", item, number, depth)),
                !.selectable = Put(@, number, item)]

\* recursive_print(its, parent_number, depth), resumed at position i of its
\* with the given counter; acc holds what was printed and registered so far.
RECURSIVE recursive_print(_, _, _, _, _, _, _, _)
recursive_print(ns, ch, its, i, counter, parent_number, depth, acc) ==
    IF i > Len(its) THEN acc
    ELSE
      LET item   == its[i]
          number == CompositeNumber(parent_number, counter + 1)
      IN
      IF IsSeparator(ns, item) THEN
          recursive_print(ns, ch, its, i + 1, counter, parent_number, depth,
              PrintSeparator(acc, item, depth))
      ELSE IF IsFolder(ns, item) THEN
          IF HasChildren(ch, item) THEN
              recursive_print(ns, ch, its, i + 1, counter + 1, parent_number, depth,
                  recursive_print(ns, ch, ch[item], 1, 0, number, depth + 1,
                      PrintFolder(acc, item, number, depth)))
          ELSE
              recursive_print(ns, ch, its, i + 1, counter, parent_number, depth,
                  PrintEmptyFolder(acc, item, depth))
      ELSE IF IsOption(ns, item) THEN
          recursive_print(ns, ch, its, i + 1, counter + 1, parent_number, depth,
              PrintOption(acc, item, number, depth))
      ELSE
          recursive_print(ns, ch, its, i + 1, counter, parent_number, depth, acc)

\* ----------------------------------------------------- collapsed navigator
NoResult == [tag |-> "none", item |-> None]
Back == [tag |-> "back", item |-> None]
Picked(item) == [tag |-> "option", item |-> item]

Frame(ref, path) == [items |-> ref, path |-> path]

\* the list a frame's items argument refers to: self.__items__ or a
\* folder's children
Deref(its, ch, ref) == IF ref = None THEN its ELSE ch[ref]

\* variant: every root-level Option passes the exit filter
CurrentItems_AllOptions(ns, its, path) ==
    IF path = <<>> THEN
        LET folders      == SelectSeq(its, LAMBDA i : IsFolder(ns, i))
            exit_options == SelectSeq(its, LAMBDA i : IsOption(ns, i))
        IN  IF folders # <<>> THEN folders \o exit_options ELSE its
    ELSE its

\* variant: the exit options are put in front of the folders
CurrentItems_ExitFirst(ns, its, path) ==
    IF path = <<>> THEN
        LET folders      == SelectSeq(its, LAMBDA i : IsFolder(ns, i))
            exit_options == SelectSeq(its, LAMBDA i :
                                IsOption(ns, i) /\ Lower(ns[i].name) = "exit")
        IN  IF folders # <<>> THEN exit_options \o folders ELSE its
    ELSE its

\* variant: the root filter is applied also when there is no folder
CurrentItems_AlwaysFiltered(ns, its, path) ==
    IF path = <<>> THEN
        LET folders      == SelectSeq(its, LAMBDA i : IsFolder(ns, i))
            exit_options == SelectSeq(its, LAMBDA i :
                                IsOption(ns, i) /\ Lower(ns[i].name) = "exit")
        IN  folders \o exit_options
    ELSE its

\* the visible items of one level
CurrentItems(ns, its, path) ==
    IF path = <<>> THEN
        LET folders      == SelectSeq(its, LAMBDA i : IsFolder(ns, i))
            exit_options == SelectSeq(its, LAMBDA i :
                                IsOption(ns, i) /\ Lower(ns[i].name) = "exit")
        IN  IF folders # <<>> THEN folders \o exit_options ELSE its
    ELSE its

\* variant: a separator uses up a number
RECURSIVE Enumerate_SeparatorCounts(_, _, _, _, _, _)
Enumerate_SeparatorCounts(ns, ch, cur, i, num, acc) ==
    IF i > Len(cur) THEN acc
    ELSE
      LET item == cur[i] IN
      IF IsSeparator(ns, item) THEN
          Enumerate_SeparatorCounts(ns, ch, cur, i + 1, num + 1,
              [acc EXCEPT !.printed = Append(@, Line("separator", item, <<>>, 0))])
      ELSE
          Enumerate_SeparatorCounts(ns, ch, cur, i + 1, num + 1,
              [printed |-> Append(acc.printed,
                   Line(IF IsFolder(ns, item)
                        THEN (IF ch[item] = <<>> THEN "empty" ELSE "folder")
                        ELSE "option", item, Digits(num), 0)),
               mapping |-> Put(acc.mapping, num, item)])

\* the numbering loop over current_items, resumed at position i with num
RECURSIVE Enumerate(_, _, _, _, _, _)
Enumerate(ns, ch, cur, i, num, acc) ==
    IF i > Len(cur) THEN acc
    ELSE
      LET item == cur[i] IN
      IF IsSeparator(ns, item) THEN
          Enumerate(ns, ch, cur, i + 1, num,
              [acc EXCEPT !.printed = Append(@, Line("separator", item, <<>>, 0))])
      ELSE
          Enumerate(ns, ch, cur, i + 1, num + 1,
              [printed |-> Append(acc.printed,
                   Line(IF IsFolder(ns, item)
                        THEN (IF ch[item] = <<>> THEN "empty" ELSE "folder")
                        ELSE "option", item, Digits(num), 0)),
               mapping |-> Put(acc.mapping, num, item)])

\* One pass of the while loop of the innermost call, up to its next input();
\* res is that call's local result (the value its latest nested call returned)
Level(ns, its, ch, stk, res) ==
    LET top == stk[Len(stk)]
        cur == CurrentItems(ns, Deref(its, ch, top.items), top.path)
        acc == Enumerate(ns, ch, cur, 1, 1,
                   [printed |-> IF top.path # <<>>
                                THEN <<Line("back", None, <<"0">>, 0)>>
                                ELSE <<>>,
                    mapping |-> EmptyMap])
    IN  IF cur = <<>>
        THEN [pc |-> "empty_pause", stack |-> stk, current_items |-> cur,
              mapping |-> EmptyMap, printed |-> <<>>, result |-> res,
              invoked |-> <<>>, message |-> ""]
        ELSE [pc |-> "prompt", stack |-> stk, current_items |-> cur,
              mapping |-> acc.mapping, printed |-> acc.printed,
              result |-> res, invoked |-> <<>>, message |-> ""]

\* variant: the test against "back" is missing
ShowResult_NoBackTest(ns, res) ==
    IF res.tag # "none"
    THEN [pc |-> IF res.tag = "option" /\ ns[res.item].action = "exit"
                 THEN "terminated" ELSE "show_end",
          stack |-> <<>>, current_items |-> <<>>, mapping |-> EmptyMap,
          printed |-> <<>>, result |-> res, invoked |-> <<res.item>>,
          message |-> ""]
    ELSE [pc |-> "show_end",
          stack |-> <<>>, current_items |-> <<>>, mapping |-> EmptyMap,
          printed |-> <<>>, result |-> res, invoked |-> <<>>,
          message |-> "No available options or menu closed."]

\* show receives the navigator's result
ShowResult(ns, res) ==
    IF res.tag # "none" /\ res.tag # "back"
    THEN [pc |-> IF ns[res.item].action = "exit" THEN "terminated" ELSE "show_end",
          stack |-> <<>>, current_items |-> <<>>, mapping |-> EmptyMap,
          printed |-> <<>>, result |-> res, invoked |-> <<res.item>>,
          message |-> ""]
    ELSE [pc |-> "show_end",
          stack |-> <<>>, current_items |-> <<>>, mapping |-> EmptyMap,
          printed |-> <<>>, result |-> res, invoked |-> <<>>,
          message |-> "No available options or menu closed."]

\* variant: "back" unwinds to the outermost call
RECURSIVE Return_ToRoot(_, _, _, _, _)
Return_ToRoot(ns, its, ch, stk, res) ==
    LET rest == Front(stk) IN
    IF rest = <<>> THEN ShowResult(ns, res)
    ELSE IF res.tag = "back" THEN Level(ns, its, ch, <<stk[1]>>, res)
    ELSE IF res.tag # "none" THEN Return_ToRoot(ns, its, ch, rest, res)
    ELSE Level(ns, its, ch, rest, res)

\* variant: a caller that receives an Option continues its own loop
RECURSIVE Return_NoPropagation(_, _, _, _, _)
Return_NoPropagation(ns, its, ch, stk, res) ==
    LET rest == Front(stk) IN
    IF rest = <<>> THEN ShowResult(ns, res)
    ELSE Level(ns, its, ch, rest, res)

\* The innermost call returns res: the caller continues its loop on "back",
\* returns an Option further up, and the outermost result goes to show.
RECURSIVE Return(_, _, _, _, _)
Return(ns, its, ch, stk, res) ==
    LET rest == Front(stk) IN
    IF rest = <<>> THEN ShowResult(ns, res)
    ELSE IF res.tag = "back" THEN Level(ns, its, ch, rest, res)
    ELSE IF res.tag # "none" THEN Return(ns, its, ch, rest, res)
    ELSE Level(ns, its, ch, rest, res)

Path == IF stack = <<>> THEN <<>> ELSE stack[Len(stack)].path

Apply(o) ==
    /\ pc' = o.pc
    /\ stack' = o.stack
    /\ current_items' = o.current_items
    /\ mapping' = o.mapping
    /\ printed' = o.printed
    /\ result' = o.result
    /\ invoked' = o.invoked
    /\ message' = o.message

\* the innermost call at its current input()
Here ==
    [pc |-> pc, stack |-> stack, current_items |-> current_items,
     mapping |-> mapping, printed |-> printed, result |-> result,
     invoked |-> invoked, message |-> message]

\* variant: an error makes the call return "back"
PauseIn_GoesBack(o, msg) == Return(nodes, items, children, o.stack, Back)

\* an error message, then "Press Enter to continue..."
PauseIn(o, msg) ==
    [pc |-> "pause", stack |-> o.stack, current_items |-> o.current_items,
     mapping |-> o.mapping, printed |-> o.printed, result |-> o.result,
     invoked |-> <<>>, message |-> msg]

Pause(msg) == PauseIn(Here, msg)

\* variant: the emptiness test before descending is missing
NoChildren_Never(ch, item) == FALSE

\* if not selected_item.children
NoChildren(ch, item) == ch[item] = <<>>

\* The answer sel to "Select an option: " in the call at o
SelectIn(o, sel) ==
    LET choice == ParseInt(sel)
        path   == o.stack[Len(o.stack)].path
    IN
    IF path # <<>> /\ sel = <<"0">> THEN
        Return(nodes, items, children, o.stack, Back)
    ELSE IF ~choice.ok THEN PauseIn(o, "Invalid selection!")
    ELSE IF choice.value \notin DOMAIN o.mapping THEN PauseIn(o, "Invalid selection!")
    ELSE
      LET selected_item == o.mapping[choice.value] IN
      IF IsFolder(nodes, selected_item) THEN
          IF NoChildren(children, selected_item) THEN PauseIn(o, "Folder is empty!")
          ELSE Level(nodes, items, children,
                     Append(o.stack, Frame(selected_item, Append(path, selected_item))),
                     NoResult)
      ELSE IF IsOption(nodes, selected_item) THEN
          Return(nodes, items, children, o.stack, Picked(selected_item))
      ELSE Level(nodes, items, children, o.stack, o.result)

\* The answer to "Select an option: " in the innermost call
Select(sel) == SelectIn(Here, sel)

CollapsedInput(sel) ==
    /\ pc = "prompt"
    /\ Apply(Select(sel))
    /\ UNCHANGED <<tree, include_exit, exit_included, collapsed, selectable>>

\* "Press Enter to continue..." after an error: the loop continues
Acknowledge ==
    /\ pc = "pause"
    /\ Apply(Level(nodes, items, children, stack, result))
    /\ UNCHANGED <<tree, include_exit, exit_included, collapsed, selectable>>

\* "Press Enter to go back..." on an empty level: return "back"
AcknowledgeEmpty ==
    /\ pc = "empty_pause"
    /\ Apply(Return(nodes, items, children, stack, Back))
    /\ UNCHANGED <<tree, include_exit, exit_included, collapsed, selectable>>

\* -------------------------------------------------------------------- show
\* variant: the __exit_included__ flag is not consulted
ExitNeeded_IgnoresFlag == include_exit

\* if self.__include_exit__ and not self.__exit_included__
ExitNeeded == include_exit /\ ~exit_included

\* show(collapsed = c), up to its first input()
Show(c) ==
    /\ pc = "idle"
    /\ LET add  == ExitNeeded
           ns1  == IF add
                   THEN Append(nodes, MenuOption("exit", "exit", None, nodes))
                   ELSE nodes
           its1 == IF add THEN Append(items, Len(nodes) + 1) ELSE items
           ch1  == IF add THEN Append(children, <<>>) ELSE children
       IN
       /\ nodes' = ns1
       /\ items' = its1
       /\ children' = ch1
       /\ exit_included' = IF add THEN TRUE ELSE exit_included
       /\ collapsed' = c
       /\ IF c
          THEN /\ Apply(Level(ns1, its1, ch1, <<Frame(None, <<>>)>>, NoResult))
               /\ selectable' = EmptyMap
          ELSE LET acc == recursive_print(ns1, ch1, its1, 1, 0, <<>>, 0,
                              [printed |-> <<>>, selectable |-> EmptyMap])
               IN  /\ pc' = "expanded_input"
                   /\ printed' = acc.printed
                   /\ selectable' = acc.selectable
                   /\ stack' = <<>>
                   /\ current_items' = <<>>
                   /\ mapping' = EmptyMap
                   /\ result' = NoResult
                   /\ invoked' = <<>>
                   /\ message' = ""
    /\ UNCHANGED include_exit

\* variant: an invalid selection prompts again
ExpandedInput_Retries(sel) ==
    /\ pc = "expanded_input"
    /\ IF sel \in DOMAIN selectable
       THEN LET chosen_option == selectable[sel] IN
            /\ invoked' = Append(invoked, chosen_option)
            /\ message' = message
            /\ pc' = IF nodes[chosen_option].action = "exit"
                     THEN "terminated" ELSE "show_end"
       ELSE /\ invoked' = invoked
            /\ message' = "Invalid selection!"
            /\ pc' = "expanded_input"
    /\ UNCHANGED <<tree, include_exit, exit_included, collapsed, stack,
                   current_items, mapping, selectable, printed, result>>

\* The answer to "Select an option: " in expanded mode, to the end of show
ExpandedInput(sel) ==
    /\ pc = "expanded_input"
    /\ IF sel \in DOMAIN selectable
       THEN LET chosen_option == selectable[sel] IN
            /\ invoked' = Append(invoked, chosen_option)
            /\ message' = message
            /\ pc' = IF nodes[chosen_option].action = "exit"
                     THEN "terminated" ELSE "show_end"
       ELSE /\ invoked' = invoked
            /\ message' = "Invalid selection!"
            /\ pc' = "show_end"
    /\ UNCHANGED <<tree, include_exit, exit_included, collapsed, stack,
                   current_items, mapping, selectable, printed, result>>

\* show returns to the caller: its locals are gone
ShowReturn ==
    /\ pc = "show_end"
    /\ pc' = "idle"
    /\ collapsed' = FALSE
    /\ stack' = <<>>
    /\ current_items' = <<>>
    /\ mapping' = EmptyMap
    /\ selectable' = EmptyMap
    /\ printed' = <<>>
    /\ result' = NoResult
    /\ invoked' = <<>>
    /\ message' = ""
    /\ UNCHANGED <<tree, include_exit, exit_included>>

\* ------------------------------------------------------------------- Next
Next ==
    \/ \E name \in Names, parent \in Folders \cup {None} : add_option(name, parent)
    \/ \E name \in Names, parent \in Folders \cup {None} : set_folder(name, parent)
    \/ \E parent \in Folders \cup {None} : add_separator(parent)
    \/ \E name \in Names \cup {"exit"} : remove_item(name)
    \/ \E c \in BOOLEAN : Show(c)
    \/ \E sel \in Inputs : ExpandedInput(sel)
    \/ \E sel \in Inputs : CollapsedInput(sel)
    \/ Acknowledge
    \/ AcknowledgeEmpty
    \/ ShowReturn

Spec == Init /\ [][Next]_vars

\* ================================================================ claims
Range(f) == {f[x] : x \in DOMAIN f}

Ids == 1..Len(nodes)

AllNames == Names \cup {"exit"}

\* items that the expanded renderer numbers: Options and non-empty Folders
Numbered(i) == IsOption(nodes, i) \/ (IsFolder(nodes, i) /\ children[i] # <<>>)

Pos(sibs, item) == CHOOSE j \in 1..Len(sibs) : sibs[j] = item

\* how many numbered items sibs holds up to and including item
Rank(sibs, item) ==
    Cardinality({j \in 1..Pos(sibs, item) : Numbered(sibs[j])})

HasLine(i) == \E k \in 1..Len(printed) : printed[k].item = i

LineOf(i) == printed[CHOOSE k \in 1..Len(printed) : printed[k].item = i]

LinesOf(i) == {k \in 1..Len(printed) : printed[k].item = i}

\* nodes of the tree: reachable from the root sequence through children
RECURSIVE Under(_)
Under(its) ==
    Range(its) \cup UNION {Under(children[its[j]]) : j \in 1..Len(its)}

TreeNodes == Under(items)

InExpanded == ~collapsed /\ pc = "expanded_input"

\* C1: in expanded mode the k-th numbered item among the children of one
\* parent is printed with the number "k" at root level and with
\* "<parent's number>.k" inside a folder, k counting from 1 per parent;
\* separators are printed without a number and do not advance k.
C1_CompositeNumbering ==
    InExpanded =>
      /\ \A j \in 1..Len(items) :
           Numbered(items[j]) =>
             /\ HasLine(items[j])
             /\ LineOf(items[j]).number = Digits(Rank(items, items[j]))
      /\ \A f \in Ids :
           (IsFolder(nodes, f) /\ HasLine(f) /\ children[f] # <<>>) =>
             \A j \in 1..Len(children[f]) :
               LET c == children[f][j] IN
               Numbered(c) =>
                 /\ HasLine(c)
                 /\ LineOf(c).number =
                      LineOf(f).number \o <<".">> \o Digits(Rank(children[f], c))
      /\ \A i \in TreeNodes :
           IsSeparator(nodes, i) /\ HasLine(i) => LineOf(i).number = <<>>

\* a separator at root between two numbered items, and a numbered folder child
C1_Witness ==
    /\ InExpanded
    /\ \E j \in 2..(Len(items) - 1) :
         /\ IsSeparator(nodes, items[j])
         /\ Numbered(items[j - 1])
         /\ Numbered(items[j + 1])
         /\ LineOf(items[j + 1]).number = <<"2">>
    /\ \E k \in 1..Len(printed) : printed[k].number = <<"1", ".", "1">>

\* C2: after the expanded tree is printed every Option of the tree is the
\* value of exactly one key of selectable, every value of selectable is an
\* Option of the tree, the printed number of a Folder is not a key, and
\* typing a Folder's printed number invokes nothing and reports an invalid
\* selection.
C2_SelectionMap ==
    /\ [](InExpanded =>
            /\ \A o \in TreeNodes :
                 IsOption(nodes, o) =>
                   Cardinality({k \in DOMAIN selectable : selectable[k] = o}) = 1
            /\ \A k \in DOMAIN selectable :
                 IsOption(nodes, selectable[k]) /\ selectable[k] \in TreeNodes
            /\ \A k \in 1..Len(printed) :
                 printed[k].kind \in {"folder", "empty", "separator"} =>
                   /\ printed[k].number \notin DOMAIN selectable
                   /\ printed[k].item \notin Range(selectable))
    /\ [][\A sel \in Inputs :
            (ExpandedInput(sel) /\ \E k \in 1..Len(printed) :
                 printed[k].kind = "folder" /\ printed[k].number = sel)
            => (invoked' = <<>> /\ message' = "Invalid selection!")]_vars

\* root = [Option, Folder[Option]]: keys "1" and "2.1", but not "2"
C2_Witness ==
    /\ InExpanded
    /\ Len(items) >= 2
    /\ IsOption(nodes, items[1])
    /\ IsFolder(nodes, items[2])
    /\ Len(children[items[2]]) = 1
    /\ IsOption(nodes, children[items[2]][1])
    /\ <<"1">> \in DOMAIN selectable
    /\ selectable[<<"1">>] = items[1]
    /\ <<"2", ".", "1">> \in DOMAIN selectable
    /\ selectable[<<"2", ".", "1">>] = children[items[2]][1]
    /\ <<"2">> \notin DOMAIN selectable

\* the automatic exit options: the ones show creates with the builtin exit
AutoExits == {i \in Ids : nodes[i].action = "exit"}

IsShowStep == pc = "idle" /\ pc' # "idle"

\* C3: the automatic exit option is created and appended to the root
\* sequence only by a show step, only when include_exit is true and only
\* when none was created before; every show with include_exit true leaves
\* one created, and a show that does not create it leaves the root sequence
\* as it was (also after remove_item("exit")).
C3_ExitOnce ==
    [][/\ (AutoExits' # AutoExits =>
             /\ IsShowStep
             /\ include_exit
             /\ AutoExits = {}
             /\ \E e \in Ids' : AutoExits' = {e} /\ items' = Append(items, e))
       /\ (IsShowStep /\ include_exit => Cardinality(AutoExits') = 1)
       /\ (IsShowStep /\ (AutoExits # {} \/ ~include_exit) =>
             items' = items /\ nodes' = nodes)
       /\ (~IsShowStep => AutoExits' = AutoExits)]_vars

\* a show is displaying a menu whose automatic exit was removed earlier
C3_Witness ==
    /\ pc \in {"expanded_input", "prompt", "empty_pause"}
    /\ include_exit
    /\ AutoExits # {}
    /\ \A e \in AutoExits : e \notin Range(items)

Carriers(name) ==
    {j \in 1..Len(items) : HasName(nodes, items[j]) /\ nodes[items[j]].name = name}

\* C4 as stated: for any name present at root level, remove_item(name)
\* followed by get_item(name) returns None, whatever the root sequence is.
C4_Original ==
    [][\A name \in AllNames :
         (get_item(name) # None /\ remove_item(name)) => get_item(name)' = None]_vars

\* C4 amended: for any name carried by exactly one root-level Option or
\* Folder, remove_item(name) followed by get_item(name) returns None; when
\* several root-level nodes carry the name, only the first is removed and
\* get_item(name) returns the second.
C4_RemoveThenGet ==
    [][\A name \in AllNames :
         remove_item(name) =>
           /\ Cardinality(Carriers(name)) = 1 => get_item(name)' = None
           /\ Cardinality(Carriers(name)) >= 2 =>
                get_item(name)' =
                  items[CHOOSE j \in Carriers(name) :
                          Cardinality({k \in Carriers(name) : k < j}) = 1]]_vars

\* a named root node was removed and its name is no longer found at root,
\* while other root nodes remain
C4_Witness ==
    /\ pc = "idle"
    /\ \E i \in Ids :
         /\ HasName(nodes, i)
         /\ nodes[i].parent = None
         /\ i \notin Range(items)
         /\ get_item(nodes[i].name) = None
         /\ \E j \in 1..Len(items) : items[j] < i /\ HasName(nodes, items[j])

\* s without its j-th element
Without(s, j) == SubSeq(s, 1, j - 1) \o SubSeq(s, j + 1, Len(s))

\* C5: remove_item(name) removes from the root sequence exactly the first
\* Option or Folder named name and changes nothing else; with no such root
\* node the tree is unchanged.
C5_RemoveFrame ==
    [][\A name \in AllNames :
         remove_item(name) =>
           /\ nodes' = nodes
           /\ children' = children
           /\ IF Carriers(name) = {}
              THEN items' = items
              ELSE items' = Without(items,
                       CHOOSE j \in Carriers(name) :
                           \A k \in Carriers(name) : j <= k)]_vars

\* the first of two root nodes with one name was removed, the second stays
C5_Witness ==
    /\ pc = "idle"
    /\ \E i \in Ids, j \in 1..Len(items) :
         /\ HasName(nodes, i)
         /\ nodes[i].parent = None
         /\ i \notin Range(items)
         /\ i < items[j]
         /\ HasName(nodes, items[j])
         /\ nodes[items[j]].name = nodes[i].name
         /\ j > 1

\* C6: in collapsed mode the input "0" at a level whose path has length
\* n >= 1 leads to the next prompt at the level of the first n-1 folders of
\* the path, showing that level's items, and invokes nothing; at root "0"
\* is not a back signal: it is an invalid selection and the level stays.
C6_BackOneLevel ==
    [][(pc = "prompt" /\ CollapsedInput(<<"0">>)) =>
         IF Path # <<>>
         THEN /\ pc' = "prompt"
              /\ Path' = Front(Path)
              /\ stack' = Front(stack)
              /\ current_items' =
                   (IF Len(Path) = 1
                    THEN CurrentItems(nodes, items, <<>>)
                    ELSE children[Path[Len(Path) - 1]])
              /\ invoked' = <<>>
         ELSE /\ pc' = "pause"
              /\ message' = "Invalid selection!"
              /\ stack' = stack
              /\ invoked' = <<>>]_vars

\* a call two folders deep returned "back" to the call one folder deep
C6_Witness ==
    /\ pc = "prompt"
    /\ result.tag = "back"
    /\ Len(Path) = 1
    /\ Len(stack) = 2

RootHasFolder == \E j \in 1..Len(items) : IsFolder(nodes, items[j])

ExitNamed(i) == IsOption(nodes, i) /\ nodes[i].name \in {"exit", "Exit"}

\* C7: at the root prompt of collapsed mode, when a Folder is among the
\* root items the mapping holds only Folders and Options named "exit" in
\* any letter case; without a root Folder all root items are shown.
C7_RootFilter ==
    (collapsed /\ pc = "prompt" /\ Path = <<>>) =>
       IF RootHasFolder
       THEN \A k \in DOMAIN mapping :
              IsFolder(nodes, mapping[k]) \/ ExitNamed(mapping[k])
       ELSE current_items = items

\* root prompt with a folder, a hidden ordinary option and a listed "Exit"
C7_Witness ==
    /\ collapsed
    /\ pc = "prompt"
    /\ Path = <<>>
    /\ RootHasFolder
    /\ \E j \in 1..Len(items) :
         IsOption(nodes, items[j]) /\ ~ExitNamed(items[j])
    /\ \E k \in DOMAIN mapping : nodes[mapping[k]].name = "Exit"

\* C8: a collapsed show invokes nothing while the navigator is running;
\* when it ends, exactly the returned Option was invoked once, or nothing
\* was invoked and the no-selection message was printed when the navigator
\* returned "back" or None.
C8_AtMostOneAction ==
    collapsed =>
      /\ pc \in {"prompt", "pause", "empty_pause"} => invoked = <<>>
      /\ pc \in {"show_end", "terminated"} =>
           /\ stack = <<>>
           /\ result.tag = "option" =>
                IsOption(nodes, result.item) /\ invoked = <<result.item>>
           /\ result.tag \in {"back", "none"} =>
                /\ invoked = <<>>
                /\ message = "No available options or menu closed."

\* an Option picked inside a folder was invoked after navigation ended
C8_Witness ==
    /\ collapsed
    /\ pc = "show_end"
    /\ result.tag = "option"
    /\ nodes[result.item].parent # None
    /\ invoked = <<result.item>>

\* C9: the step that reads the line in expanded mode ends show: a line that
\* is a key of selectable invokes the mapped Option once, any other line
\* reports an invalid selection, invokes nothing, and does not prompt again.
C9_OneShot ==
    [][/\ (~collapsed /\ pc = "expanded_input") =>
             pc' \in {"show_end", "terminated"}
       /\ \A sel \in Inputs :
            ExpandedInput(sel) =>
              IF sel \in DOMAIN selectable
              THEN invoked' = <<selectable[sel]>> /\ message' = ""
              ELSE /\ invoked' = <<>>
                   /\ message' = "Invalid selection!"
                   /\ pc' = "show_end"]_vars

\* an expanded show with selectable options ended on an invalid line
C9_Witness ==
    /\ ~collapsed
    /\ pc = "show_end"
    /\ message = "Invalid selection!"
    /\ invoked = <<>>
    /\ DOMAIN selectable # {}

\* the sequence that holds node i, and the printed prefix of its numbers
Siblings(i) ==
    IF nodes[i].parent = None THEN items ELSE children[nodes[i].parent]

Prefix(i) ==
    IF nodes[i].parent = None THEN <<>>
    ELSE LineOf(nodes[i].parent).number \o <<".">>

\* C10: in expanded mode an empty Folder of the tree is printed once with
\* the <empty> marker and no number, is no value of selectable, is never
\* invoked, and the numbered siblings after it are numbered as if it were
\* not there.
C10_EmptyFolder ==
    (~collapsed /\ pc \in {"expanded_input", "show_end", "terminated"}) =>
       \A f \in TreeNodes :
         (IsFolder(nodes, f) /\ children[f] = <<>> /\ HasLine(f)) =>
            /\ Cardinality(LinesOf(f)) = 1
            /\ LineOf(f).kind = "empty"
            /\ LineOf(f).number = <<>>
            /\ f \notin Range(selectable)
            /\ f \notin Range(invoked)
            /\ \A j \in 1..Len(Siblings(f)) :
                 LET c == Siblings(f)[j] IN
                 (j > Pos(Siblings(f), f) /\ Numbered(c)) =>
                    LineOf(c).number = Prefix(c) \o Digits(Rank(Siblings(f), c))

\* an empty folder printed between two numbered root items
C10_Witness ==
    /\ InExpanded
    /\ \E j \in 2..(Len(items) - 1) :
         /\ IsFolder(nodes, items[j])
         /\ children[items[j]] = <<>>
         /\ LineOf(items[j]).kind = "empty"
         /\ LineOf(items[j - 1]).number = <<"1">>
         /\ LineOf(items[j + 1]).number = <<"2">>

\* C11: in both modes a Separator is never a value of selectable or of
\* mapping, its printed line never carries a number, and it is never the
\* navigator's result nor invoked.
C11_SeparatorNeverSelected ==
    LET Sep(i) == nodes[i].kind = "Separator" IN
    /\ \A k \in DOMAIN selectable : ~Sep(selectable[k])
    /\ \A k \in DOMAIN mapping : ~Sep(mapping[k])
    /\ \A k \in 1..Len(printed) :
         (printed[k].item # None /\ Sep(printed[k].item)) =>
            printed[k].kind = "separator" /\ printed[k].number = <<>>
    /\ result.tag = "option" => ~Sep(result.item)
    /\ \A k \in 1..Len(invoked) : ~Sep(invoked[k])

\* a collapsed level below root lists a separator followed by a numbered item
C11_Witness ==
    /\ collapsed
    /\ pc = "prompt"
    /\ Path # <<>>
    /\ \E j \in 1..(Len(current_items) - 1) :
         /\ nodes[current_items[j]].kind = "Separator"
         /\ current_items[j + 1] \in Range(mapping)

InNavigation == collapsed /\ pc \in {"prompt", "pause", "empty_pause"}

Ended(o) == o.pc \in {"show_end", "terminated"}

\* what the navigator at o can be at after one more line of input
NavNext(o) ==
    IF o.pc = "prompt" THEN {SelectIn(o, sel) : sel \in Inputs}
    ELSE IF o.pc = "pause"
         THEN {Level(nodes, items, children, o.stack, o.result)}
    ELSE IF o.pc = "empty_pause"
         THEN {Return(nodes, items, children, o.stack, Back)}
    ELSE {}

\* everything the navigator can be at after any finite sequence of inputs
RECURSIVE NavReach(_)
NavReach(S) ==
    LET T == S \cup UNION {NavNext(o) : o \in S} IN
    IF T = S THEN S ELSE NavReach(T)

\* C12: from every reachable state of a collapsed show there is a finite
\* sequence of inputs after which the call has ended (with an Option
\* selected or without a pick).
C12_CanAlwaysEnd ==
    InNavigation => \E o \in NavReach({Here}) : Ended(o)

\* the digits after the last "." of a composite number, and their value
RECURSIVE LastPart(_)
LastPart(n) ==
    IF n = <<>> \/ n[Len(n)] = "." THEN <<>>
    ELSE LastPart(Front(n)) \o <<n[Len(n)]>>

LastCounter(n) == DigitsValue(LastPart(n))

\* the sequence the innermost collapsed level was given
LevelItems == Deref(items, children, stack[Len(stack)].items)

\* expanded mode: numbered siblings are printed, and counted, in the order
\* of their sequence
ExpandedInOrder ==
    \A a, b \in 1..Len(printed) :
      LET x == printed[a].item
          y == printed[b].item
      IN  (/\ printed[a].number # <<>>
           /\ printed[b].number # <<>>
           /\ nodes[x].parent = nodes[y].parent
           /\ Pos(Siblings(x), x) < Pos(Siblings(x), y))
          => (a < b /\ LastCounter(printed[a].number) < LastCounter(printed[b].number))

\* collapsed mode: the numbers follow the order of the level's sequence
CollapsedInOrder ==
    \A j, k \in DOMAIN mapping :
      Pos(LevelItems, mapping[j]) < Pos(LevelItems, mapping[k]) => j < k

\* C13 as stated: at every displayed level of both modes, a numbered item
\* inserted before another one is listed before it with the smaller
\* number, the collapsed root level with Folders and an "exit" option
\* included.
C13_Original ==
    /\ InExpanded => ExpandedInOrder
    /\ (collapsed /\ pc = "prompt") => CollapsedInOrder

\* C13 amended: display order follows insertion order in expanded mode, at
\* every collapsed level below root and at a collapsed root without
\* Folders; at a collapsed root with a Folder, the Folders are listed first
\* in insertion order, then the Options named "exit" in insertion order,
\* also when such an Option was inserted before a Folder.
C13_DisplayOrder ==
    /\ InExpanded => ExpandedInOrder
    /\ (collapsed /\ pc = "prompt") =>
         IF Path = <<>> /\ RootHasFolder
         THEN \A j, k \in DOMAIN mapping :
                /\ (nodes[mapping[j]].kind = nodes[mapping[k]].kind
                    /\ Pos(items, mapping[j]) < Pos(items, mapping[k])) => j < k
                /\ (nodes[mapping[j]].kind = "Folder"
                    /\ nodes[mapping[k]].kind = "Option") => j < k
         ELSE CollapsedInOrder

\* a collapsed root lists a Folder before an exit option inserted earlier
C13_Witness ==
    /\ collapsed
    /\ pc = "prompt"
    /\ Path = <<>>
    /\ \E j, k \in DOMAIN mapping :
         /\ j < k
         /\ nodes[mapping[j]].kind = "Folder"
         /\ nodes[mapping[k]].kind = "Option"
         /\ Pos(items, mapping[k]) < Pos(items, mapping[j])

IsPrefix(s, t) == Len(s) <= Len(t) /\ SubSeq(t, 1, Len(s)) = s

\* what creating an Option or Folder with the given parent must do
PlacedUnder(parent) ==
    LET i == Len(nodes) + 1 IN
    /\ Len(nodes') = i
    /\ nodes'[i].parent = parent
    /\ nodes'[i].dimension =
         (IF parent = None THEN 0 ELSE nodes[parent].dimension + 1)
    /\ IF parent = None
       THEN /\ items' = Append(items, i)
            /\ \A f \in Ids : children'[f] = children[f]
       ELSE /\ children'[parent] = Append(children[parent], i)
            /\ items' = items

\* C14: an Option or Folder created without a parent gets depth 0 and is
\* appended to the root sequence; one created with parent f gets f as its
\* parent reference, depth f.depth + 1 and is appended to f's children; no
\* step changes the parent reference or depth of an existing node or takes
\* a node out of a folder's children, and only remove_item takes a node out
\* of the root sequence.
C14_ParentAndDepth ==
    /\ [](\A i \in Ids :
            nodes[i].kind # "Separator" =>
              IF nodes[i].parent = None
              THEN nodes[i].dimension = 0
              ELSE /\ nodes[nodes[i].parent].kind = "Folder"
                   /\ nodes[i].dimension = nodes[nodes[i].parent].dimension + 1
                   /\ i \in Range(children[nodes[i].parent]))
    /\ [][/\ \A name \in Names, parent \in Folders \cup {None} :
               (add_option(name, parent) \/ set_folder(name, parent))
                  => PlacedUnder(parent)
          /\ \A i \in Ids : nodes'[i] = nodes[i]
          /\ \A f \in Ids : IsPrefix(children[f], children'[f])
          /\ (IsPrefix(items, items')
                \/ \E name \in AllNames : remove_item(name))]_vars

\* a show is running over a tree that holds a node of depth 2
C14_Witness ==
    /\ pc \in {"prompt", "expanded_input"}
    /\ \E i \in Ids :
         /\ nodes[i].kind = "Option"
         /\ nodes[i].dimension = 2
         /\ nodes[nodes[i].parent].dimension = 1
         /\ i \in Range(children[nodes[i].parent])

\* C15: in collapsed mode, typing the number of a non-empty Folder f at the
\* level with path p leads to the prompt of the level with path p + [f]
\* that shows exactly f's children; typing the number of an Option at any
\* level ends navigation with that Option as the result of every enclosing
\* call, with no prompt in between; "0" at the deeper level leads back to
\* the prompt of path p.
C15_DescendAndReturn ==
    [][/\ \A k \in DOMAIN mapping :
            (pc = "prompt" /\ CollapsedInput(Digits(k))) =>
               LET it == mapping[k] IN
               /\ (nodes[it].kind = "Folder" /\ children[it] # <<>>) =>
                     /\ pc' = "prompt"
                     /\ Len(stack') = Len(stack) + 1
                     /\ Front(stack') = stack
                     /\ Path' = Append(Path, it)
                     /\ current_items' = children[it]
                     /\ invoked' = <<>>
               /\ nodes[it].kind = "Option" =>
                     /\ pc' \in {"show_end", "terminated"}
                     /\ stack' = <<>>
                     /\ result' = Picked(it)
                     /\ invoked' = <<it>>
       /\ (pc = "prompt" /\ Path # <<>> /\ CollapsedInput(<<"0">>)) =>
            /\ pc' = "prompt"
            /\ stack' = Front(stack)
            /\ Path' = Front(Path)]_vars

\* an Option picked two folders deep came back through all three calls
C15_Witness ==
    /\ collapsed
    /\ pc = "show_end"
    /\ stack = <<>>
    /\ result.tag = "option"
    /\ nodes[result.item].dimension = 2
    /\ invoked = <<result.item>>

\* int() of every line that is typed
Parsed == [sel \in Inputs |-> ParseInt(sel)]

\* the line is no key of the level: int() fails or gives no key of mapping
NotAKey(sel) ==
    ~Parsed[sel].ok \/ Parsed[sel].value \notin DOMAIN mapping

\* an invalid selection is reported and the same level is about to prompt
InvalidReported ==
    /\ pc' = "pause"
    /\ message' = "Invalid selection!"
    /\ stack' = stack
    /\ mapping' = mapping
    /\ invoked' = <<>>
    /\ UNCHANGED tree

\* after the acknowledgment the same level prompts again
Reprompts ==
    pc = "pause" =>
       /\ pc' = "prompt"
       /\ stack' = stack
       /\ mapping' = mapping
       /\ current_items' = current_items
       /\ invoked' = <<>>
       /\ UNCHANGED tree

\* C16 as stated: in collapsed mode every input that does not parse as an
\* integer, or parses to an integer that is no key of the level's mapping,
\* reports an invalid selection and prompts again at the same level. (A step
\* from the prompt reports an invalid selection, or answers no such line.)
C16_Original ==
    [][/\ pc = "prompt" =>
            \/ InvalidReported
            \/ \A sel \in Inputs : NotAKey(sel) => ~CollapsedInput(sel)
       /\ Reprompts]_vars

\* C16 amended: the same, except for the line "0" at a level below root,
\* which is the back signal although 0 is no key of the mapping.
C16_InvalidReprompts ==
    [][/\ pc = "prompt" =>
            \/ InvalidReported
            \/ \A sel \in Inputs :
                 (NotAKey(sel) /\ ~(Path # <<>> /\ sel = <<"0">>))
                    => ~CollapsedInput(sel)
       /\ Reprompts]_vars

\* an invalid line was reported at a level below root, which is still open
C16_Witness ==
    /\ collapsed
    /\ pc = "pause"
    /\ message = "Invalid selection!"
    /\ Path # <<>>

\* C17: in collapsed mode an empty Folder at its parent level is a key of
\* the mapping and is listed under that number with the <empty> marker;
\* typing its number reports the empty-folder error, and the same level
\* prompts again with the path unchanged.
C17_EmptyFolderSelected ==
    /\ []((collapsed /\ pc = "prompt") =>
            \A j \in 1..Len(current_items) :
              LET f == current_items[j] IN
              (nodes[f].kind = "Folder" /\ children[f] = <<>>) =>
                 \E k \in DOMAIN mapping :
                    /\ mapping[k] = f
                    /\ \E n \in 1..Len(printed) :
                         /\ printed[n].item = f
                         /\ printed[n].kind = "empty"
                         /\ printed[n].number = Digits(k))
    /\ [][/\ \A k \in DOMAIN mapping :
               (/\ pc = "prompt"
                /\ CollapsedInput(Digits(k))
                /\ nodes[mapping[k]].kind = "Folder"
                /\ children[mapping[k]] = <<>>)
                  => /\ pc' = "pause"
                     /\ message' = "Folder is empty!"
                     /\ stack' = stack
                     /\ mapping' = mapping
                     /\ invoked' = <<>>
          /\ Reprompts]_vars

\* the empty-folder error was reported and the level is still open
C17_Witness ==
    /\ collapsed
    /\ pc = "pause"
    /\ message = "Folder is empty!"
    /\ \E k \in DOMAIN mapping :
         nodes[mapping[k]].kind = "Folder" /\ children[mapping[k]] = <<>>

\* the visible items of the innermost level that are not Separators
Numberable ==
    SelectSeq(current_items, LAMBDA i : nodes[i].kind # "Separator")

\* C18: at every collapsed level the keys of mapping are exactly 1..k for
\* the k visible items that are not Separators, the j-th of them has key j
\* and is printed with the number j; Separators leave no gap and are no key.
C18_SequentialKeys ==
    (collapsed /\ pc = "prompt") =>
       /\ DOMAIN mapping = 1..Len(Numberable)
       /\ \A j \in 1..Len(Numberable) :
            /\ mapping[j] = Numberable[j]
            /\ \E n \in 1..Len(printed) :
                 printed[n].item = Numberable[j] /\ printed[n].number = Digits(j)

\* a level lists a separator between the items numbered k and k + 1
C18_Witness ==
    /\ collapsed
    /\ pc = "prompt"
    /\ \E j \in 2..(Len(current_items) - 1), k \in DOMAIN mapping :
         /\ nodes[current_items[j]].kind = "Separator"
         /\ (k + 1) \in DOMAIN mapping
         /\ mapping[k] = current_items[j - 1]
         /\ mapping[k + 1] = current_items[j + 1]

NoSelection == "No available options or menu closed."

\* C19: in collapsed mode the empty-level branch is taken only by the
\* outermost call and only when the root sequence is empty; every level
\* below root shows the children of a non-empty Folder; the call ends with
\* the no-selection message only when the root sequence is empty (so the
\* automatic exit is disabled or was removed), and with root items present
\* it ends only with an Option as result.
C19_EmptyOnlyAtRoot ==
    collapsed =>
      /\ pc = "empty_pause" =>
           Len(stack) = 1 /\ Path = <<>> /\ items = <<>>
      /\ (pc \in {"prompt", "pause"} /\ Path # <<>>) =>
           /\ current_items # <<>>
           /\ current_items = children[Path[Len(Path)]]
      /\ (pc = "show_end" /\ message = NoSelection) =>
           /\ items = <<>>
           /\ (~include_exit \/ AutoExits \cap Range(items) = {})
      /\ (pc \in {"show_end", "terminated"} /\ items # <<>>) =>
           result.tag = "option" /\ message # NoSelection

\* a collapsed show ended without a pick after the exit option was removed
C19_Witness ==
    /\ collapsed
    /\ pc = "show_end"
    /\ message = NoSelection
    /\ result.tag = "back"
    /\ include_exit
    /\ AutoExits # {}
    /\ items = <<>>

====
